---- MODULE Spec2Model ----
(***************************************************************************)
(* Model of the DHT crawler engine (src/crawler.py, class DHTCrawler) and   *)
(* of its admission / metadata-loading layer (src/app.py, class             *)
(* GrapefruitDHTCrawler).                                                   *)
(*                                                                          *)
(* The program runs on one asyncio event loop.  A step of the model is the  *)
(* code one task runs between two suspension points (an await that really   *)
(* yields).  Node ids, info-hashes and transaction ids are naturals; the     *)
(* XOR metric is the bitwise one.                                            *)
(***************************************************************************)
EXTENDS Bags, FiniteSets, Integers, Sequences, TLC

VARIABLES
    routing_table,        \* self.routing_table: bucket index -> set of Node
    candidates,           \* self.candidates: sequence of batches of Node
    searchers,            \* self.searchers: t -> Searcher
    searchers_seq,        \* self.searchers_seq
    torrent_in_progress,  \* self.torrent_in_progress
    db,                   \* info-hashes of the records in db.torrents
    handlers,             \* handle_message tasks suspended in is_torrent_exists
    loaders,              \* scheduled or running load_torrent tasks
    now,                  \* what datetime.now() returns, in seconds
    out,                  \* the datagrams the last step passed to transport.sendto
    lookups               \* history of the searcher last registered under each
                          \* t: when it was created, the responses applied to
                          \* it, the values they held, how it ended

vars == <<routing_table, candidates, searchers, searchers_seq,
          torrent_in_progress, db, handlers, loaders, now, out, lookups>>

-----------------------------------------------------------------------------
(* Program constants *)

NumBuckets == 160
BucketCap == 1600
SearchK == 16
QueryK == 8
Attempts == 8
Deadline == 60
PoolCap == 16000
DrainMax == 7
BatchMax == 8
DaySeconds == 86400

\* 2 ** 32 - 1 in search_peers, scaled down: TLC integers are 32-bit
SeqMax == 7

\* self.node_id, fixed for the model
node_id == 5

\* The value a dict lookup has when the key is absent from the message.
NoKey == -1
\* A value drawn by generate_node_id() / generate_id() for an outbound query.
Fresh == -2

-----------------------------------------------------------------------------
(* Bounds of the model *)

MaxSearchers == 2     \* searchers started in one behaviour
MaxPool == 1          \* batches held in the candidate pool
MaxTime == 61         \* the clock stops advancing here

-----------------------------------------------------------------------------
(* utils: xor, get_routing_table_index, fetch_k_closest_nodes *)

RECURSIVE xor(_, _)
xor(a, b) ==
    IF a = 0 THEN b
    ELSE IF b = 0 THEN a
    ELSE (((a % 2) + (b % 2)) % 2) + 2 * xor(a \div 2, b \div 2)

RECURSIVE BitLength(_)
BitLength(d) == IF d = 0 THEN 0 ELSE 1 + BitLength(d \div 2)

\* position of the highest set bit of the distance
get_routing_table_index(distance) == BitLength(distance) - 1

Node(id, host, port) == [id |-> id, host |-> host, port |-> port]

\* the nodes of a set, each paired with its distance to target_id
Keyed(nodes, target_id) == {<<xor(n.id, target_id), n>> : n \in nodes}

\* p comes before q in the order of distance; equal distance means equal id,
\* and the address then orders the two
Closer(p, q) ==
    \/ p[1] < q[1]
    \/ /\ p[1] = q[1]
       /\ \/ p[2].host < q[2].host
          \/ p[2].host = q[2].host /\ p[2].port < q[2].port

\* how many of the keyed nodes come before p
Rank(p, keyed) == Cardinality({q \in keyed : Closer(q, p)})

\* the k_value nodes of the set closest to target_id (all of them when there
\* are no more than k_value)
KClosest(nodes, target_id, k_value) ==
    IF Cardinality(nodes) <= k_value THEN nodes
    ELSE LET keyed == Keyed(nodes, target_id)
         IN  {p[2] : p \in {q \in keyed : Rank(q, keyed) < k_value}}

\* a set of nodes as the list sorted by distance to target_id
Sorted(nodes, target_id) ==
    LET keyed == Keyed(nodes, target_id)
    IN  [i \in 1 .. Cardinality(nodes) |->
            (CHOOSE p \in keyed : Rank(p, keyed) = i - 1)[2]]

\* the k_value nodes closest to target_id, closest first
fetch_k_closest_nodes(nodes, target_id, k_value) ==
    Sorted(KClosest(nodes, target_id, k_value), target_id)

Range(s) == {s[i] : i \in DOMAIN s}

-----------------------------------------------------------------------------
(* Datagrams passed to transport.sendto *)

Datagram(host, port, y, q, t, arg, nodes, e) ==
    [host |-> host, port |-> port, y |-> y, q |-> q, t |-> t, arg |-> arg,
     nodes |-> nodes, e |-> e]

\* DHTCrawler.find_node: random t, random id
FindNodeMsg(host, port, target) ==
    Datagram(host, port, "q", "find_node", Fresh, target, << >>, 0)

\* DHTCrawler.get_peers
GetPeersMsg(host, port, info_hash, t) ==
    Datagram(host, port, "q", "get_peers", t, info_hash, << >>, 0)

ReplyMsg(host, port, t, nodes) ==
    Datagram(host, port, "r", "", t, NoKey, nodes, 0)

\* the except clause of handle_message: t is msg.get("t", "")
ErrorMsg(host, port, t) ==
    Datagram(host, port, "e", "", t, NoKey, << >>, 202)

\* the datagrams of a sequence of sends
BagOfSeq(s) ==
    [d \in {s[i] : i \in DOMAIN s} |-> Cardinality({i \in DOMAIN s : s[i] = d})]

-----------------------------------------------------------------------------
(* Routing table *)

\* The two loops of get_closest_nodes visit the buckets one index at a time;
\* an empty bucket adds nothing, so the scans step over the occupied ones.
Occupied(rt, lo, hi) == {i \in lo .. hi : rt[i] # {}}

Max(S) == CHOOSE x \in S : \A y \in S : y <= x

Min(S) == CHOOSE x \in S : \A y \in S : x <= y

RECURSIVE ScanLeft(_, _, _, _, _)
\* while idx >= 0 and len(closest_l) < k_value, towards lower indices
ScanLeft(rt, idxs, closest_l, target_id, k_value) ==
    IF idxs # {} /\ Cardinality(closest_l) < k_value
    THEN ScanLeft(rt, idxs \ {Max(idxs)},
                  closest_l \cup KClosest(rt[Max(idxs)], target_id, k_value),
                  target_id, k_value)
    ELSE closest_l

RECURSIVE ScanRight(_, _, _, _, _)
\* while idx < 160 and len(closest_r) < k_value, towards higher indices
ScanRight(rt, idxs, closest_r, target_id, k_value) ==
    IF idxs # {} /\ Cardinality(closest_r) < k_value
    THEN ScanRight(rt, idxs \ {Min(idxs)},
                   closest_r \cup KClosest(rt[Min(idxs)], target_id, k_value),
                   target_id, k_value)
    ELSE closest_r

\* get_closest_nodes without the scan towards higher indices
get_closest_nodes_left(rt, target_id, k_value) ==
    LET r_table_idx == get_routing_table_index(xor(node_id, target_id))
        closest_l == ScanLeft(rt, Occupied(rt, 0, r_table_idx), {}, target_id, k_value)
    IN  fetch_k_closest_nodes(closest_l, target_id, k_value)

get_closest_nodes(rt, target_id, k_value) ==
    LET r_table_idx == get_routing_table_index(xor(node_id, target_id))
        closest_l == ScanLeft(rt, Occupied(rt, 0, r_table_idx), {}, target_id, k_value)
        closest_r == ScanRight(rt, Occupied(rt, r_table_idx + 1, NumBuckets - 1), {},
                               target_id, k_value)
    IN  fetch_k_closest_nodes(closest_l \cup closest_r, target_id, k_value)

\* add_node admitting a node to a bucket that already holds 1600
add_node_drawing_le(rt, node, draw) ==
    LET r_table_index == get_routing_table_index(xor(node.id, node_id))
        bucket == rt[r_table_index]
    IN  IF Cardinality(bucket) <= BucketCap
        THEN {[rt |-> [rt EXCEPT ![r_table_index] = bucket \cup {node}],
               sent |-> EmptyBag]}
        ELSE {[rt |-> [rt EXCEPT ![r_table_index] = bucket \ {victim}],
               sent |-> EmptyBag] :
                  victim \in IF node \in bucket THEN {} ELSE {v \in draw : v \in bucket}}
             \cup
             {[rt |-> rt,
               sent |-> SetToBag({FindNodeMsg(node.host, node.port, Fresh)})]}

\* The outcomes of add_node: the new table and the datagrams it sent.  The coin
\* (get_rand_bool) is free; the evicted member (random.sample) is any member
\* of the bucket that is in draw.
add_node_drawing(rt, node, draw) ==
    LET r_table_index == get_routing_table_index(xor(node.id, node_id))
        bucket == rt[r_table_index]
    IN  IF Cardinality(bucket) < BucketCap
        THEN {[rt |-> [rt EXCEPT ![r_table_index] = bucket \cup {node}],
               sent |-> EmptyBag]}
        ELSE {[rt |-> [rt EXCEPT ![r_table_index] = bucket \ {victim}],
               sent |-> EmptyBag] :
                  victim \in IF node \in bucket THEN {} ELSE {v \in draw : v \in bucket}}
             \cup
             {[rt |-> rt,
               sent |-> SetToBag({FindNodeMsg(node.host, node.port, Fresh)})]}

\* add_node as the handlers call it: random.sample draws from the whole bucket
add_node(rt, node) ==
    add_node_drawing(rt, node, rt[get_routing_table_index(xor(node.id, node_id))])

-----------------------------------------------------------------------------
(* Inbound KRPC messages, as bdecode returns them.  A field whose key is     *)
(* absent from the dict holds NoKey (AbsentQ for q); has_a and has_r tell    *)
(* whether the "a" and "r" dicts are there.                                  *)

AbsentQ == "<absent>"

Msg(y, t, q, has_a, id, info_hash, target, has_r, nodes, values) ==
    [y |-> y, t |-> t, q |-> q, has_a |-> has_a, id |-> id,
     info_hash |-> info_hash, target |-> target, has_r |-> has_r,
     nodes |-> nodes, values |-> values]

Query(q, t, id, arg) ==
    Msg("q", t, q, TRUE, id, arg, arg, FALSE, {}, {})

Response(t, id, nodes, values) ==
    Msg("r", t, AbsentQ, FALSE, id, NoKey, NoKey, TRUE, nodes, values)

-----------------------------------------------------------------------------
(* Searcher manager: search_peers, update_peers_searcher *)

Searcher(info_hash, nodes, values, attempts_count, timestamp) ==
    [info_hash |-> info_hash, nodes |-> nodes, values |-> values,
     attempts_count |-> attempts_count, timestamp |-> timestamp]

\* a load_torrent task as ensure_future schedules it
Loader(info_hash, peers) ==
    [info_hash |-> info_hash, peers |-> peers, pc |-> "peer"]

\* GrapefruitDHTCrawler.peers_values_received: the tasks it schedules
peers_values_received(info_hash, peers) ==
    SetToBag({Loader(info_hash, peers)})


\* one get_peers datagram to every node of the set
GetPeersAll(nodes, info_hash, t) ==
    [d \in {GetPeersMsg(n.host, n.port, info_hash, t) : n \in nodes} |->
        Cardinality({n \in nodes : GetPeersMsg(n.host, n.port, info_hash, t) = d})]

\* one find_node datagram to every node of the list
FindNodeEach(nodes, target_id) ==
    BagOfSeq([i \in DOMAIN nodes |->
                 FindNodeMsg(nodes[i].host, nodes[i].port, target_id)])

\* one find_node datagram to every node of the batches at idxs of the pool
FindNodeAll(pool, idxs, target_id) ==
    LET sends == UNION {{<<i, n>> : n \in pool[i]} : i \in idxs}
    IN  [d \in {FindNodeMsg(p[2].host, p[2].port, target_id) : p \in sends} |->
            Cardinality({p \in sends :
                            FindNodeMsg(p[2].host, p[2].port, target_id) = d})]

RECURSIVE Remaining(_, _)
\* the pool without the batches at idxs
Remaining(pool, idxs) ==
    IF pool = << >> THEN << >>
    ELSE LET rest == Remaining(SubSeq(pool, 1, Len(pool) - 1), idxs)
         IN  IF Len(pool) \in idxs THEN rest ELSE Append(rest, pool[Len(pool)])

\* what the history keeps of a searcher
Lookup(born, responses, values, ended) ==
    [born |-> born, responses |-> responses, values |-> values, ended |-> ended]

Without(f, k) == [x \in DOMAIN f \ {k} |-> f[x]]

With(f, k, v) == [x \in DOMAIN f \cup {k} |-> IF x = k THEN v ELSE f[x]]

NextSeq(seq) == IF seq >= SeqMax THEN 0 ELSE seq + 1

\* search_peers: the registry and the datagrams after it ran
search_peers(info_hash) ==
    LET t == NextSeq(searchers_seq)
    IN  [seq |-> t,
         searchers |-> With(searchers, t, Searcher(info_hash, {}, {}, Attempts, now)),
         sent |-> GetPeersAll(Range(get_closest_nodes(routing_table, info_hash, SearchK)),
                              info_hash, t)]

\* update_peers_searcher reading the searcher with get instead of pop: a
\* searcher that delivers stays registered
update_peers_searcher_get(t, nodes, values) ==
    LET searcher == searchers[t]
        info_hash == searcher.info_hash
        new_nodes == searcher.nodes \cup nodes
        new_values == searcher.values \cup values
        new_closest == KClosest(new_nodes, info_hash, SearchK)
        old_closest == KClosest(searcher.nodes, info_hash, SearchK)
        attempts_count == IF new_closest = old_closest
                          THEN searcher.attempts_count - 1
                          ELSE searcher.attempts_count
    IN  IF attempts_count > 0
        THEN [searchers |-> With(searchers, t, Searcher(info_hash, new_nodes, new_values,
                                                        attempts_count, searcher.timestamp)),
              scheduled |-> EmptyBag,
              sent |-> GetPeersAll(new_closest, info_hash, t)]
        ELSE [searchers |-> searchers,
              scheduled |-> peers_values_received(info_hash, new_values),
              sent |-> EmptyBag]

\* update_peers_searcher testing attempts_count >= 0: one response too many
update_peers_searcher_ge(t, nodes, values) ==
    LET searcher == searchers[t]
        popped == Without(searchers, t)
        info_hash == searcher.info_hash
        new_nodes == searcher.nodes \cup nodes
        new_values == searcher.values \cup values
        new_closest == KClosest(new_nodes, info_hash, SearchK)
        old_closest == KClosest(searcher.nodes, info_hash, SearchK)
        attempts_count == IF new_closest = old_closest
                          THEN searcher.attempts_count - 1
                          ELSE searcher.attempts_count
    IN  IF attempts_count >= 0
        THEN [searchers |-> With(popped, t, Searcher(info_hash, new_nodes, new_values,
                                                     attempts_count, searcher.timestamp)),
              scheduled |-> EmptyBag,
              sent |-> GetPeersAll(new_closest, info_hash, t)]
        ELSE [searchers |-> popped,
              scheduled |-> peers_values_received(info_hash, new_values),
              sent |-> EmptyBag]

\* update_peers_searcher stamping the searcher it registers again with the
\* time of the response
update_peers_searcher_restamp(t, nodes, values) ==
    LET searcher == searchers[t]
        popped == Without(searchers, t)
        info_hash == searcher.info_hash
        new_nodes == searcher.nodes \cup nodes
        new_values == searcher.values \cup values
        new_closest == KClosest(new_nodes, info_hash, SearchK)
        old_closest == KClosest(searcher.nodes, info_hash, SearchK)
        attempts_count == IF new_closest = old_closest
                          THEN searcher.attempts_count - 1
                          ELSE searcher.attempts_count
    IN  IF attempts_count > 0
        THEN [searchers |-> With(popped, t, Searcher(info_hash, new_nodes, new_values,
                                                     attempts_count, now)),
              scheduled |-> EmptyBag,
              sent |-> GetPeersAll(new_closest, info_hash, t)]
        ELSE [searchers |-> popped,
              scheduled |-> peers_values_received(info_hash, new_values),
              sent |-> EmptyBag]

\* update_peers_searcher keeping the values of the last response only
update_peers_searcher_forgets(t, nodes, values) ==
    LET searcher == searchers[t]
        popped == Without(searchers, t)
        info_hash == searcher.info_hash
        new_nodes == searcher.nodes \cup nodes
        new_values == values
        new_closest == KClosest(new_nodes, info_hash, SearchK)
        old_closest == KClosest(searcher.nodes, info_hash, SearchK)
        attempts_count == IF new_closest = old_closest
                          THEN searcher.attempts_count - 1
                          ELSE searcher.attempts_count
    IN  IF attempts_count > 0
        THEN [searchers |-> With(popped, t, Searcher(info_hash, new_nodes, new_values,
                                                     attempts_count, searcher.timestamp)),
              scheduled |-> EmptyBag,
              sent |-> GetPeersAll(new_closest, info_hash, t)]
        ELSE [searchers |-> popped,
              scheduled |-> peers_values_received(info_hash, new_values),
              sent |-> EmptyBag]

\* update_peers_searcher for a registered t: the registry, the load_torrent
\* tasks scheduled and the datagrams sent
update_peers_searcher(t, nodes, values) ==
    LET searcher == searchers[t]
        popped == Without(searchers, t)
        info_hash == searcher.info_hash
        new_nodes == searcher.nodes \cup nodes
        new_values == searcher.values \cup values
        new_closest == KClosest(new_nodes, info_hash, SearchK)
        old_closest == KClosest(searcher.nodes, info_hash, SearchK)
        attempts_count == IF new_closest = old_closest
                          THEN searcher.attempts_count - 1
                          ELSE searcher.attempts_count
    IN  IF attempts_count > 0
        THEN [searchers |-> With(popped, t, Searcher(info_hash, new_nodes, new_values,
                                                     attempts_count, searcher.timestamp)),
              scheduled |-> EmptyBag,
              sent |-> GetPeersAll(new_closest, info_hash, t)]
        ELSE [searchers |-> popped,
              scheduled |-> peers_values_received(info_hash, new_values),
              sent |-> EmptyBag]

-----------------------------------------------------------------------------
(* KRPC dispatch: datagram_received, handle_message, handle_query,           *)
(* handle_response                                                           *)

\* the lookups of handle_query that raise KeyError before anything is sent
QueryRaises(msg) ==
    \/ ~msg.has_a
    \/ msg.id = NoKey
    \/ msg.q = AbsentQ
    \/ msg.q = "ping" /\ msg.t = NoKey
    \/ msg.q = "find_node" /\ (msg.target = NoKey \/ msg.t = NoKey)
    \/ msg.q \in {"get_peers", "announce_peer"}
       /\ (msg.info_hash = NoKey \/ msg.t = NoKey)

\* what handle_query sends back before it runs the hook of the query
QueryReply(msg, host, port) ==
    CASE msg.q \in {"ping", "announce_peer"} ->
            SetToBag({ReplyMsg(host, port, msg.t, << >>)})
      [] msg.q = "find_node" ->
            SetToBag({ReplyMsg(host, port, msg.t,
                               get_closest_nodes(routing_table, msg.target, QueryK))})
      [] msg.q = "get_peers" ->
            SetToBag({ReplyMsg(host, port, msg.t,
                               get_closest_nodes(routing_table, msg.info_hash, QueryK))})
      [] OTHER -> EmptyBag

\* is_torrent_exists filtering on a key no record has: it never finds one
is_torrent_exists_raw_key(info_hash) == FALSE

\* GrapefruitDHTCrawler.is_torrent_exists, when the store answers
is_torrent_exists(info_hash) == info_hash \in db

\* a handle_message task suspended in enqueue_torrent, at is_torrent_exists
Handler(msg, host, port) ==
    [info_hash |-> msg.info_hash, id |-> msg.id, host |-> host, port |-> port,
     t |-> msg.t]

\* handle_message for y = "q", up to its first suspension
handle_query(msg, host, port) ==
    /\ msg.y = "q"
    /\ IF QueryRaises(msg)
       THEN /\ out' = SetToBag({ErrorMsg(host, port, msg.t)})
            /\ UNCHANGED <<routing_table, candidates, searchers, searchers_seq,
                           torrent_in_progress, db, handlers, loaders, now, lookups>>
       ELSE IF /\ msg.q \in {"get_peers", "announce_peer"}
               /\ msg.info_hash \notin torrent_in_progress
       THEN /\ handlers' = handlers (+) SetToBag({Handler(msg, host, port)})
            /\ out' = QueryReply(msg, host, port)
            /\ UNCHANGED <<routing_table, candidates, searchers, searchers_seq,
                           torrent_in_progress, db, loaders, now, lookups>>
       ELSE \E res \in add_node(routing_table, Node(msg.id, host, port)) :
            /\ routing_table' = res.rt
            /\ out' = QueryReply(msg, host, port) (+) res.sent
            /\ UNCHANGED <<candidates, searchers, searchers_seq,
                           torrent_in_progress, db, handlers, loaders, now, lookups>>

\* enqueue_torrent resumed with the answer of is_torrent_exists, then the rest
\* of handle_query
enqueue_torrent(h) ==
    /\ BagIn(h, handlers)
    /\ handlers' = handlers (-) SetToBag({h})
    /\ IF is_torrent_exists(h.info_hash)
       THEN \E res \in add_node(routing_table, Node(h.id, h.host, h.port)) :
            /\ routing_table' = res.rt
            /\ out' = res.sent
            /\ UNCHANGED <<candidates, searchers, searchers_seq,
                           torrent_in_progress, db, loaders, now, lookups>>
       ELSE LET s == search_peers(h.info_hash)
            IN  \E res \in add_node(routing_table, Node(h.id, h.host, h.port)) :
                /\ torrent_in_progress' = torrent_in_progress \cup {h.info_hash}
                /\ searchers_seq' = s.seq
                /\ searchers' = s.searchers
                /\ routing_table' = res.rt
                /\ out' = s.sent (+) res.sent
                /\ lookups' = With(lookups, s.seq, Lookup(now, 0, {}, "no"))
                /\ UNCHANGED <<candidates, db, loaders, now>>

\* is_torrent_exists raises in enqueue_torrent: the except clause of
\* handle_message sends the error and the task ends
enqueue_torrent_fails(h) ==
    /\ BagIn(h, handlers)
    /\ handlers' = handlers (-) SetToBag({h})
    /\ out' = SetToBag({ErrorMsg(h.host, h.port, h.t)})
    /\ UNCHANGED <<routing_table, candidates, searchers, searchers_seq,
                   torrent_in_progress, db, loaders, now, lookups>>

\* handle_message for y = "r"; drop is the index random.randrange picks when
\* the pool is full (0 when it is not) and batch what random.sample draws
handle_response(msg, host, port, drop, batch) ==
    /\ msg.y = "r"
    /\ IF ~msg.has_r \/ msg.t = NoKey \/ msg.id = NoKey
       THEN /\ out' = SetToBag({ErrorMsg(host, port, msg.t)})
            /\ UNCHANGED <<routing_table, candidates, searchers, searchers_seq,
                           torrent_in_progress, db, handlers, loaders, now, lookups>>
       ELSE IF msg.t \in DOMAIN searchers
       THEN LET u == update_peers_searcher(msg.t, msg.nodes, msg.values)
            IN  \E res \in add_node(routing_table, Node(msg.id, host, port)) :
                /\ searchers' = u.searchers
                /\ loaders' = loaders (+) u.scheduled
                /\ routing_table' = res.rt
                /\ out' = u.sent (+) res.sent
                /\ lookups' = With(lookups, msg.t,
                                   Lookup(lookups[msg.t].born,
                                          lookups[msg.t].responses + 1,
                                          lookups[msg.t].values \cup msg.values,
                                          IF msg.t \in DOMAIN u.searchers
                                          THEN "no" ELSE "converged"))
                /\ UNCHANGED <<candidates, searchers_seq, torrent_in_progress,
                               db, handlers, now>>
       ELSE /\ IF Len(candidates) >= PoolCap
               THEN drop \in DOMAIN candidates
               ELSE drop = 0
            /\ batch \subseteq msg.nodes
            /\ Cardinality(batch) = IF Cardinality(msg.nodes) < BatchMax
                                    THEN Cardinality(msg.nodes) ELSE BatchMax
            /\ \E res \in add_node(routing_table, Node(msg.id, host, port)) :
                /\ candidates' = Append(Remaining(candidates, {drop}), batch)
                /\ routing_table' = res.rt
                /\ out' = res.sent
                /\ UNCHANGED <<searchers, searchers_seq, torrent_in_progress,
                               db, handlers, loaders, now, lookups>>

\* handle_message for any other y (an error message, or no y at all): neither
\* branch is taken
handle_other(msg, host, port) ==
    /\ msg.y \notin {"q", "r"}
    /\ out' = EmptyBag
    /\ UNCHANGED <<routing_table, candidates, searchers, searchers_seq,
                   torrent_in_progress, db, handlers, loaders, now, lookups>>

\* one call of add_node; draw is what random.sample may return
add_node_call(node, draw) ==
    \E res \in add_node_drawing(routing_table, node, draw) :
       /\ routing_table' = res.rt
       /\ out' = res.sent
       /\ UNCHANGED <<candidates, searchers, searchers_seq, torrent_in_progress,
                      db, handlers, loaders, now, lookups>>

-----------------------------------------------------------------------------
(* Auto-discovery loop and the clock *)

\* timedelta.seconds of a non-negative difference: the days are a field apart
Seconds(delta) == delta % DaySeconds

Expired(clock) ==
    {t \in DOMAIN searchers : Seconds(clock - searchers[t].timestamp) >= Deadline}

\* the load_torrent tasks the sweep schedules for the searchers of ts
Delivered(ts) ==
    [l \in {Loader(searchers[t].info_hash, searchers[t].values) : t \in ts} |->
        Cardinality({t \in ts :
                        Loader(searchers[t].info_hash, searchers[t].values) = l})]

\* one iteration of the loop of auto_find_nodes, after its sleep; target_id is
\* what generate_node_id draws and popped the batches random.randrange picks
auto_find_nodes(target_id, popped) ==
    /\ popped \subseteq DOMAIN candidates
    /\ Cardinality(popped) = IF Len(candidates) < DrainMax
                             THEN Len(candidates) ELSE DrainMax
    /\ candidates' = Remaining(candidates, popped)
    /\ out' = FindNodeEach(get_closest_nodes(routing_table, target_id, QueryK), target_id)
              (+) FindNodeAll(candidates, popped, target_id)
    /\ loaders' = loaders (+) Delivered(Expired(now))
    /\ searchers' = [t \in DOMAIN searchers \ Expired(now) |-> searchers[t]]
    /\ lookups' = [t \in DOMAIN lookups |->
                      IF t \in Expired(now)
                      THEN [lookups[t] EXCEPT !.ended = "deadline"]
                      ELSE lookups[t]]
    /\ UNCHANGED <<routing_table, searchers_seq, torrent_in_progress, db,
                   handlers, now>>

\* time passes
Advance(d) ==
    /\ now' = now + d
    /\ out' = EmptyBag
    /\ UNCHANGED <<routing_table, candidates, searchers, searchers_seq,
                   torrent_in_progress, db, handlers, loaders, lookups>>

-----------------------------------------------------------------------------
(* Metadata loader: load_torrent *)

Replace(l, m) == (loaders (-) SetToBag({l})) (+) SetToBag({m})

\* the connection, the handshake or the transfer with peer p fails, or the
\* protocol hands back no torrent: the loop goes on to the next peer
load_torrent_peer_fails(l, p) ==
    /\ BagIn(l, loaders) /\ l.pc = "peer" /\ p \in l.peers
    /\ loaders' = Replace(l, [l EXCEPT !.peers = @ \ {p}])
    /\ out' = EmptyBag
    /\ UNCHANGED <<routing_table, candidates, searchers, searchers_seq,
                   torrent_in_progress, db, handlers, now, lookups>>

\* peer p hands back the torrent: the task awaits is_torrent_exists
load_torrent_peer_ok(l, p) ==
    /\ BagIn(l, loaders) /\ l.pc = "peer" /\ p \in l.peers
    /\ loaders' = Replace(l, [l EXCEPT !.peers = @ \ {p}, !.pc = "exists"])
    /\ out' = EmptyBag
    /\ UNCHANGED <<routing_table, candidates, searchers, searchers_seq,
                   torrent_in_progress, db, handlers, now, lookups>>

\* load_torrent without the finally clause
load_torrent_exit_keeps(l) ==
    /\ loaders' = loaders (-) SetToBag({l})
    /\ UNCHANGED torrent_in_progress

\* the finally clause: torrent_in_progress.remove (KeyError leaves the set as
\* it is), and the task is over
load_torrent_exit(l) ==
    /\ loaders' = loaders (-) SetToBag({l})
    /\ torrent_in_progress' = torrent_in_progress \ {l.info_hash}

\* is_torrent_exists answers: the record is there (break), or it is not and
\* the task awaits insert_one
load_torrent_exists(l) ==
    /\ BagIn(l, loaders) /\ l.pc = "exists"
    /\ IF is_torrent_exists(l.info_hash)
       THEN load_torrent_exit(l)
       ELSE /\ loaders' = Replace(l, [l EXCEPT !.pc = "insert"])
            /\ UNCHANGED torrent_in_progress
    /\ out' = EmptyBag
    /\ UNCHANGED <<routing_table, candidates, searchers, searchers_seq, db,
                   handlers, now, lookups>>

\* insert_one answers: the record is stored (break) unless the unique index
\* on info_hash rejects it
load_torrent_insert(l) ==
    /\ BagIn(l, loaders) /\ l.pc = "insert"
    /\ IF l.info_hash \in db
       THEN /\ loaders' = Replace(l, [l EXCEPT !.pc = "peer"])
            /\ UNCHANGED <<torrent_in_progress, db>>
       ELSE /\ db' = db \cup {l.info_hash}
            /\ load_torrent_exit(l)
    /\ out' = EmptyBag
    /\ UNCHANGED <<routing_table, candidates, searchers, searchers_seq,
                   handlers, now, lookups>>

\* is_torrent_exists or insert_one raises (the store is unavailable): the
\* inner except passes and the loop goes on to the next peer
load_torrent_store_fails(l) ==
    /\ BagIn(l, loaders) /\ l.pc \in {"exists", "insert"}
    /\ loaders' = Replace(l, [l EXCEPT !.pc = "peer"])
    /\ out' = EmptyBag
    /\ UNCHANGED <<routing_table, candidates, searchers, searchers_seq,
                   torrent_in_progress, db, handlers, now, lookups>>

\* the peers are exhausted (or there were none)
load_torrent_done(l) ==
    /\ BagIn(l, loaders) /\ l.pc = "peer" /\ l.peers = {}
    /\ load_torrent_exit(l)
    /\ out' = EmptyBag
    /\ UNCHANGED <<routing_table, candidates, searchers, searchers_seq, db,
                   handlers, now, lookups>>

-----------------------------------------------------------------------------
(* The engine after construction, and its inputs *)

Init ==
    /\ routing_table = [i \in 0 .. NumBuckets - 1 |-> {}]
    /\ candidates = << >>
    /\ searchers = << >>
    /\ searchers_seq = 0
    /\ torrent_in_progress = {}
    /\ db = {}
    /\ handlers = EmptyBag
    /\ loaders = EmptyBag
    /\ now = 0
    /\ out = EmptyBag
    /\ lookups = << >>

InfoHashes == {3}
Hosts == {1}
Ports == {6881}
Peers == {[host |-> 7, port |-> 51413]}
Senders == {6}
Targets == {12}

\* the searchers started so far (the counter has not wrapped)
Admit == searchers_seq + BagCardinality(handlers) < MaxSearchers

Queries ==
    {Query(q, 1, id, h) : q \in {"get_peers", "announce_peer"}, id \in Senders,
                          h \in InfoHashes}

Responses ==
    {Response(t, id, {}, Peers) : t \in 1 .. MaxSearchers, id \in Senders}

Next ==
    \/ \E msg \in Queries, host \in Hosts, port \in Ports :
          Admit /\ handle_query(msg, host, port)
    \/ \E msg \in Responses, host \in Hosts, port \in Ports :
          /\ msg.t \in DOMAIN searchers \/ Len(candidates) < MaxPool
          /\ handle_response(msg, host, port, 0, {})
    \/ \E h \in DOMAIN handlers : enqueue_torrent(h)
    \/ \E h \in DOMAIN handlers : enqueue_torrent_fails(h)
    \/ \E target_id \in Targets : auto_find_nodes(target_id, DOMAIN candidates)
    \/ now + Deadline <= MaxTime /\ Advance(Deadline)
    \/ \E l \in DOMAIN loaders, p \in Peers : load_torrent_peer_fails(l, p)
    \/ \E l \in DOMAIN loaders, p \in Peers : load_torrent_peer_ok(l, p)
    \/ \E l \in DOMAIN loaders : load_torrent_exists(l)
    \/ \E l \in DOMAIN loaders : load_torrent_insert(l)
    \/ \E l \in DOMAIN loaders : load_torrent_store_fails(l)
    \/ \E l \in DOMAIN loaders : load_torrent_done(l)

Spec == Init /\ [][Next]_vars

-----------------------------------------------------------------------------
(* Admission and loading: properties checked under Spec *)

\* the load_torrent tasks, scheduled or running, for info_hash
LoadersOf(bag, info_hash) ==
    BagCardinality([l \in {x \in DOMAIN bag : x.info_hash = info_hash} |-> bag[l]])

\* the registered searchers of info_hash that a step removes
Gone(info_hash) ==
    {t \in DOMAIN searchers :
        t \notin DOMAIN searchers' /\ searchers[t].info_hash = info_hash}

\* C1: two queries carrying the same info_hash, interleaved at the store probe of
\* enqueue_torrent, start one searcher: a searcher is only ever started for an
\* info_hash that is not in torrent_in_progress when the searcher starts.
C1_SecondQueryStartsNothing ==
    [][searchers_seq' # searchers_seq =>
          searchers'[searchers_seq'].info_hash \notin torrent_in_progress]_vars

\* C2: in every state there is at most one load_torrent task per info_hash.
C2_OneLoaderPerInfoHash ==
    \A info_hash \in InfoHashes : LoadersOf(loaders, info_hash) <= 1

\* what an enqueue that is dropped leaves alone
EnqueueIsNoOp ==
    /\ searchers' = searchers
    /\ searchers_seq' = searchers_seq
    /\ torrent_in_progress' = torrent_in_progress
    /\ loaders' = loaders
    /\ \A d \in DOMAIN handlers' : handlers'[d] <= CopiesIn(d, handlers)
    /\ \A d \in DOMAIN out' : d.q # "get_peers"

\* C3: enqueue_torrent is a no-op when info_hash is in torrent_in_progress at the
\* call, and when is_torrent_exists answers true: no searcher, no probe, no
\* change of searchers_seq, of the registry, of torrent_in_progress, no loader.
C3_DroppedEnqueueIsNoOp ==
    /\ [][\A msg \in Queries, host \in Hosts, port \in Ports :
            (/\ handle_query(msg, host, port)
             /\ msg.info_hash \in torrent_in_progress) => EnqueueIsNoOp]_vars
    /\ [][\A h \in DOMAIN handlers :
            (enqueue_torrent(h) /\ h.info_hash \in db) => EnqueueIsNoOp]_vars

\* a query for an info_hash in progress has just been answered and dropped
C3_Witness ==
    /\ 3 \in torrent_in_progress
    /\ handlers = EmptyBag
    /\ BagIn(ReplyMsg(1, 6881, 1, << >>), out)

\* C4: a searcher delivers exactly once: a step schedules, for each info_hash,
\* as many load_torrent tasks as it removes searchers of that info_hash from
\* the registry, and none when it removes none.
C4_DeliversExactlyOnce ==
    [][\A info_hash \in InfoHashes :
          IF Gone(info_hash) = {}
          THEN LoadersOf(loaders', info_hash) <= LoadersOf(loaders, info_hash)
          ELSE LoadersOf(loaders', info_hash) =
                  LoadersOf(loaders, info_hash) + Cardinality(Gone(info_hash))]_vars

\* both removals have happened: one searcher was swept with no response
\* applied, another delivered the values of its responses
C4_Witness ==
    /\ searchers = << >>
    /\ DOMAIN lookups = {1, 2}
    /\ lookups[1].ended = "deadline"
    /\ lookups[2].ended = "converged"
    /\ BagIn(Loader(3, {}), loaders)
    /\ BagIn(Loader(3, Peers), loaders)

\* C7: when a load_torrent task exits, whatever the outcome, its info_hash is
\* not in torrent_in_progress afterwards.
C7_ExitClearsInProgress ==
    [][\A l \in DOMAIN loaders :
          (/\ BagCardinality(loaders') < BagCardinality(loaders)
           /\ CopiesIn(l, loaders') < CopiesIn(l, loaders))
          => l.info_hash \notin torrent_in_progress']_vars

\* a task has exited with nothing stored and the same info_hash is admitted again
C7_Witness ==
    /\ searchers_seq = 1
    /\ searchers = << >>
    /\ loaders = EmptyBag
    /\ db = {}
    /\ torrent_in_progress = {}
    /\ handlers # EmptyBag

-----------------------------------------------------------------------------
(* One lookup, from search_peers to delivery: SpecSearch.  The routing table *)
(* holds sixteen nodes, as after a ping from each.                           *)

Stable == {Node(id, 2, 6881) : id \in 16 .. 31}
Far == Node(40, 2, 6881)
Near == Node(2, 2, 6881)
Swarm == {[host |-> 7, port |-> 51413], [host |-> 8, port |-> 51413]}

InitSearch ==
    /\ routing_table =
          [i \in 0 .. NumBuckets - 1 |->
              {n \in Stable : get_routing_table_index(xor(n.id, node_id)) = i}]
    /\ candidates = << >>
    /\ searchers = << >>
    /\ searchers_seq = 0
    /\ torrent_in_progress = {}
    /\ db = {}
    /\ handlers = EmptyBag
    /\ loaders = EmptyBag
    /\ now = 0
    /\ out = EmptyBag
    /\ lookups = << >>

\* the clock readings of the search: the creation of the searcher and its
\* deadline, each with the second after it
Instants == {0, 1, Deadline, Deadline + 1}

\* the responses to the search: the 16 stable nodes, then one more that is
\* farther from the info-hash than all of them, then one that is nearer
ResponsesSearch ==
    {Response(1, 16, ns, vs) : ns \in {Stable, Stable \cup {Far}, Stable \cup {Far, Near}},
                               vs \in {{}} \cup {{p} : p \in Swarm}}

NextSearch ==
    \/ /\ searchers_seq = 0 /\ handlers = EmptyBag
       /\ handle_query(Query("get_peers", 1, 16, 3), 2, 6881)
    \/ \E h \in DOMAIN handlers : enqueue_torrent(h)
    \/ \E msg \in ResponsesSearch :
          msg.t \in DOMAIN searchers /\ handle_response(msg, 2, 6881, 0, {})
    \/ \E target_id \in Targets : auto_find_nodes(target_id, DOMAIN candidates)
    \/ \E d \in {1, Deadline - 1} :
          now + d <= MaxTime /\ now + d \in Instants /\ Advance(d)

SpecSearch == InitSearch /\ [][NextSearch]_vars

\* the 16 nodes of the set closest to the info-hash
Closest16(nodes, info_hash) == KClosest(nodes, info_hash, SearchK)

\* the step is handle_response applying msg to its registered searcher; the
\* step then counts the response and accumulates its values
Applied(msg) ==
    /\ msg.t \in DOMAIN searchers
    /\ msg.t \in DOMAIN lookups'
    /\ lookups'[msg.t].responses = lookups[msg.t].responses + 1
    /\ lookups'[msg.t].values = lookups[msg.t].values \cup msg.values
    /\ handle_response(msg, 2, 6881, 0, {})

\* C5: a searcher is created with attempts 8 and every registered searcher has
\* attempts in 1..8; a response applied to it takes one attempt when the
\* closest 16 of the accumulated nodes are the same after as before and none
\* otherwise; with attempts left the searcher stays registered and probes the
\* new closest nodes, with none left it is removed and delivers.  With
\* responses that all carry the same 16 nodes and no values, the 9th response
\* delivers the empty peer set.
C5_AttemptsCountdown ==
    /\ [](\A t \in DOMAIN searchers : searchers[t].attempts_count \in 1 .. 8)
    /\ [][\A t \in DOMAIN searchers' :
            t \notin DOMAIN searchers => searchers'[t].attempts_count = 8]_vars
    /\ [][\A msg \in ResponsesSearch :
            Applied(msg) =>
            LET s == searchers[msg.t]
                after == Closest16(s.nodes \cup msg.nodes, s.info_hash)
                left == IF after = Closest16(s.nodes, s.info_hash)
                        THEN s.attempts_count - 1 ELSE s.attempts_count
            IN  /\ IF left > 0
                   THEN /\ msg.t \in DOMAIN searchers'
                        /\ searchers'[msg.t].attempts_count = left
                        /\ \A n \in after :
                              BagIn(GetPeersMsg(n.host, n.port, s.info_hash, msg.t), out')
                        /\ loaders' = loaders
                   ELSE /\ msg.t \notin DOMAIN searchers'
                        /\ loaders' = loaders (+)
                              SetToBag({Loader(s.info_hash, s.values \cup msg.values)})
                /\ (/\ msg.nodes = Stable /\ msg.values = {}
                    /\ s.nodes \in {{}, Stable}
                    /\ lookups[msg.t].values = {}) =>
                      /\ msg.t \notin DOMAIN searchers' <=> lookups[msg.t].responses = 8
                      /\ msg.t \notin DOMAIN searchers' =>
                            loaders' = loaders (+) SetToBag({Loader(3, {})})]_vars

\* nine responses were applied, none held a value, and the ninth delivered
C5_Witness ==
    /\ searchers = << >>
    /\ DOMAIN lookups = {1}
    /\ lookups[1] = Lookup(0, 9, {}, "converged")
    /\ loaders = SetToBag({Loader(3, {})})

\* C6: an iteration of auto_find_nodes removes every searcher created at
\* least 60 s before it and delivers the union of the values of the responses
\* applied to it; it leaves the younger ones as they are.
C6_DeadlineSweep ==
    [][(\E target_id \in Targets : auto_find_nodes(target_id, DOMAIN candidates)) =>
          \A t \in DOMAIN searchers :
             IF now - lookups[t].born >= 60
             THEN /\ t \notin DOMAIN searchers'
                  /\ CopiesIn(Loader(searchers[t].info_hash, lookups[t].values), loaders')
                        = 1 + CopiesIn(Loader(searchers[t].info_hash, lookups[t].values),
                                       loaders)
             ELSE /\ t \in DOMAIN searchers'
                  /\ searchers'[t] = searchers[t]]_vars

\* a searcher that had applied responses holding both peers was swept 60 s
\* after its creation and delivered them
C6_Witness ==
    /\ searchers = << >>
    /\ DOMAIN lookups = {1}
    /\ lookups[1].ended = "deadline"
    /\ lookups[1].born = 1
    /\ now = 61
    /\ lookups[1].values = Swarm
    /\ loaders = SetToBag({Loader(3, Swarm)})

-----------------------------------------------------------------------------
(* The KRPC dispatch on well-formed and malformed messages *)

\* queries with each of their keys present or missing, of the four query
\* types, of another type, and with no q at all
QueriesKrpc ==
    {Msg("q", t, q, has_a, id, arg, arg, FALSE, {}, {}) :
        t \in {1, NoKey},
        q \in {"ping", "find_node", "get_peers", "announce_peer", "vote", AbsentQ},
        has_a \in BOOLEAN, id \in {6, NoKey}, arg \in {3, NoKey}}

\* replies with each of their keys present or missing
ResponsesKrpc ==
    {Msg("r", t, AbsentQ, FALSE, id, NoKey, NoKey, has_r, nodes, {}) :
        t \in {1, NoKey}, id \in {6, 9, NoKey}, has_r \in BOOLEAN,
        nodes \in {{}, {Node(12, 2, 6881)}}}

\* error messages, with and without the id of their sender, and dictionaries
\* with no y
OthersKrpc ==
    {Msg(y, 1, AbsentQ, FALSE, id, NoKey, NoKey, FALSE, {}, {}) :
        y \in {"e", ""}, id \in {6, NoKey}}

NextKrpc ==
    \/ \E msg \in QueriesKrpc : Admit /\ handle_query(msg, 1, 6881)
    \/ \E h \in DOMAIN handlers : enqueue_torrent(h)
    \/ \E h \in DOMAIN handlers : enqueue_torrent_fails(h)
    \/ \E msg \in ResponsesKrpc :
          /\ msg.t \notin DOMAIN searchers
          /\ Len(candidates) < MaxPool
          /\ handle_response(msg, 1, 6881, 0, msg.nodes)
    \/ \E msg \in OthersKrpc : handle_other(msg, 1, 6881)
    \/ \E target_id \in Targets : auto_find_nodes(target_id, DOMAIN candidates)

SpecKrpc == Init /\ [][NextKrpc]_vars

\* d answers msg: it goes to the sender, echoes t, and is a reply or the
\* error [202, "Server Error"]
Answers(d, msg, host, port) ==
    /\ d.host = host /\ d.port = port
    /\ d.t = msg.t
    /\ d.y = "r" \/ (d.y = "e" /\ d.e = 202)

\* C8: handling a message with y = "q" sends the sender a datagram echoing its
\* t, for every value of q: a reply when the query is a well-formed ping,
\* find_node, get_peers or announce_peer, a reply or the error 202 otherwise.
C8_EveryQueryAnswered ==
    [][\A msg \in QueriesKrpc :
          handle_query(msg, 1, 6881) =>
          \E d \in DOMAIN out' :
             /\ Answers(d, msg, 1, 6881)
             /\ (/\ msg.q \in {"ping", "find_node", "get_peers", "announce_peer"}
                 /\ msg.t # NoKey /\ msg.has_a /\ msg.id # NoKey
                 /\ msg.info_hash # NoKey) => d.y = "r"]_vars

\* a query or a reply that lacks one of t, a, r, q, id
Malformed(msg) ==
    \/ msg.t = NoKey
    \/ msg.id = NoKey
    \/ msg.y = "q" /\ (~msg.has_a \/ msg.q = AbsentQ)
    \/ msg.y = "r" /\ ~msg.has_r

\* C9: handling a query or a reply that lacks a required key sends nothing and
\* leaves the routing table, the candidate pool, the searcher registry and
\* the in-progress set as they were.
C9_MalformedDroppedSilently ==
    [][\A msg \in QueriesKrpc \cup ResponsesKrpc :
          (/\ Malformed(msg)
           /\ \/ handle_query(msg, 1, 6881)
              \/ handle_response(msg, 1, 6881, 0, msg.nodes)) =>
          /\ out' = EmptyBag
          /\ UNCHANGED <<routing_table, candidates, searchers, torrent_in_progress>>]_vars

-----------------------------------------------------------------------------
(* The routing table under add_node, with a bucket at its capacity *)

\* 1599 nodes of one bucket
Crowd == {Node(2048 + k, 2, 6881) : k \in 0 .. BucketCap - 2}

\* three more nodes of that bucket
Late == {Node(4000 + k, 2, 6881) : k \in 0 .. 2}

\* nodes of three other buckets
Aside == {Node(64, 2, 6881), Node(128, 2, 6881), Node(256, 2, 6881)}

\* the members random.sample returns here
Drawn == {Node(2048, 2, 6881), Node(2049, 2, 6881)} \cup Late

CrowdIndex == get_routing_table_index(xor(2048, node_id))

InitRT ==
    /\ routing_table = [i \in 0 .. NumBuckets - 1 |->
                           IF i = CrowdIndex THEN Crowd ELSE {}]
    /\ candidates = << >>
    /\ searchers = << >>
    /\ searchers_seq = 0
    /\ torrent_in_progress = {}
    /\ db = {}
    /\ handlers = EmptyBag
    /\ loaders = EmptyBag
    /\ now = 0
    /\ out = EmptyBag
    /\ lookups = << >>

NextRT == \E node \in Drawn \cup Aside : add_node_call(node, Drawn)

SpecRT == InitRT /\ [][NextRT]_vars

\* C10: every bucket of the routing table holds at most 1600 nodes.
C10_BucketWithinCap ==
    \A i \in DOMAIN routing_table : Cardinality(routing_table[i]) <= 1600

\* the bucket was filled, lost a member to a node that came when it was full,
\* and was filled again with late nodes
C10_Witness ==
    /\ Cardinality(routing_table[CrowdIndex]) = 1600
    /\ Node(4000, 2, 6881) \in routing_table[CrowdIndex]
    /\ Node(4001, 2, 6881) \in routing_table[CrowdIndex]
    /\ Node(2048, 2, 6881) \notin routing_table[CrowdIndex]

-----------------------------------------------------------------------------
(* add_node on a bucket at its capacity *)

\* the bucket add_node puts the node in
BucketOf(node) == get_routing_table_index(xor(node.id, node_id))

\* C11: add_node of a node whose bucket holds 1600 either evicts one member
\* and adds the node (the node was absent; afterwards it is in the bucket,
\* which holds 1600 again), or leaves the bucket as it is and sends a
\* find_node to the node's address; the second when the node is present.
C11_FullBucketInsert ==
    [][\A node \in Drawn \cup Aside :
          (/\ Cardinality(routing_table[BucketOf(node)]) = 1600
           /\ add_node_call(node, Drawn)) =>
          LET before == routing_table[BucketOf(node)]
              after == routing_table'[BucketOf(node)]
          IN  \/ /\ node \notin before
                 /\ node \in after
                 /\ Cardinality(after) = 1600
                 /\ Cardinality(before \ after) = 1
              \/ /\ after = before
                 /\ BagIn(FindNodeMsg(node.host, node.port, Fresh), out')]_vars

-----------------------------------------------------------------------------
(* The routing table as messages from a few nodes build it *)

\* seven nodes of bucket 3, in the table from the start
Seeded == {Node(id, 1, 6881) : id \in 9 .. 15}

\* the nodes that send messages: the eighth id of bucket 3, one id of bucket 0
\* seen at two addresses, one id of bucket 2 and one of bucket 4
Callers ==
    {Node(8, 1, 6881), Node(4, 1, 6881), Node(4, 2, 6881), Node(1, 1, 6881),
     Node(21, 1, 6881)}

\* the targets of closest-node lookups: one of bucket 4, one of bucket 3
TableTargets == {21, 13}

\* the k_value of the calls: one node, and the default
TableKs == {1, QueryK}

NextTable ==
    \/ \E n \in Callers, q \in {"ping", "find_node"} :
          handle_query(Query(q, 1, n.id, 21), n.host, n.port)
    \/ \E n \in Callers :
          /\ Len(candidates) < MaxPool
          /\ handle_response(Response(1, n.id, {}, {}), n.host, n.port, 0, {})
    \/ \E target_id \in TableTargets : auto_find_nodes(target_id, DOMAIN candidates)

InitTable ==
    /\ routing_table =
          [i \in 0 .. NumBuckets - 1 |-> {n \in Seeded : BucketOf(n) = i}]
    /\ candidates = << >>
    /\ searchers = << >>
    /\ searchers_seq = 0
    /\ torrent_in_progress = {}
    /\ db = {}
    /\ handlers = EmptyBag
    /\ loaders = EmptyBag
    /\ now = 0
    /\ out = EmptyBag
    /\ lookups = << >>

SpecTable == InitTable /\ [][NextTable]_vars

\* C12: a bucket holds at most one node per id, and after a query or a reply
\* from an id the table holds at another address, the table holds that id at
\* the address of the message only.
C12_OneEntryPerId ==
    /\ [](\A i \in DOMAIN routing_table :
             \A n, m \in routing_table[i] : n.id = m.id => n = m)
    /\ [][\A n \in Callers :
            (/\ \E m \in routing_table[BucketOf(n)] : m.id = n.id /\ m # n
             /\ \/ \E q \in {"ping", "find_node"} :
                      handle_query(Query(q, 1, n.id, 21), n.host, n.port)
                \/ handle_response(Response(1, n.id, {}, {}), n.host, n.port, 0, {})) =>
            /\ n \in routing_table'[BucketOf(n)]
            /\ \A m \in routing_table'[BucketOf(n)] : m.id = n.id => m = n]_vars

\* C13: get_closest_nodes returns at most k_value nodes, in ascending order of
\* XOR distance to the target, no two of them with the same id.
C13_ClosestSortedDistinct ==
    \A target_id \in TableTargets, k_value \in TableKs :
       LET closest == get_closest_nodes(routing_table, target_id, k_value)
       IN  /\ Len(closest) <= k_value
           /\ \A i, j \in DOMAIN closest :
                 i < j => xor(closest[i].id, target_id) <= xor(closest[j].id, target_id)
           /\ \A i, j \in DOMAIN closest :
                 i # j => closest[i].id # closest[j].id

-----------------------------------------------------------------------------
(* One searcher and a fixed multiset of responses, in every arrival order *)

\* the responses of the multiset: one that brings nothing, one that brings a
\* nearer node and a peer, three that bring a farther node and another peer
OrderA == Response(1, 16, {}, {})
OrderB == Response(1, 16, {Near}, {[host |-> 7, port |-> 51413]})
OrderC == Response(1, 16, {Far}, {[host |-> 8, port |-> 51413]})
OrderD == Response(1, 16, {Node(41, 2, 6881)}, {[host |-> 9, port |-> 51413]})
OrderE == Response(1, 16, {Node(42, 2, 6881)}, {[host |-> 10, port |-> 51413]})

OrderResponses == {OrderA, OrderB, OrderC, OrderD, OrderE}

\* the peers of the whole multiset
OrderPeers == UNION {msg.values : msg \in OrderResponses}

\* how many copies of each the multiset holds
Copies(msg) == IF msg = OrderA THEN Attempts ELSE 1

\* the copies of msg that arrived after the searcher was removed: each left
\* its nodes as a batch in the candidate pool
Missed(msg) == Cardinality({i \in DOMAIN candidates : candidates[i] = msg.nodes})

\* whether the response holding a peer was applied to the searcher
AppliedOnce(msg) ==
    IF 1 \in DOMAIN lookups /\ msg.values \subseteq lookups[1].values THEN 1 ELSE 0

\* the copies of msg that have arrived
Arrived(msg) ==
    IF msg = OrderA
    THEN Missed(msg) + IF 1 \in DOMAIN lookups
                       THEN lookups[1].responses - AppliedOnce(OrderB)
                               - AppliedOnce(OrderC) - AppliedOnce(OrderD)
                               - AppliedOnce(OrderE)
                       ELSE 0
    ELSE Missed(msg) + AppliedOnce(msg)

AllArrived == \A msg \in OrderResponses : Arrived(msg) = Copies(msg)

NextOrder ==
    \/ /\ searchers_seq = 0 /\ handlers = EmptyBag
       /\ handle_query(Query("get_peers", 1, 16, 3), 2, 6881)
    \/ \E h \in DOMAIN handlers : enqueue_torrent(h)
    \/ \E msg \in OrderResponses :
          /\ 1 \in DOMAIN lookups
          /\ Arrived(msg) < Copies(msg)
          /\ handle_response(msg, 2, 6881, 0, msg.nodes)

SpecOrder == InitSearch /\ [][NextOrder]_vars

\* C14: whatever the order in which the responses of the multiset arrived, the
\* searcher has delivered the same peer set, the one it delivers when the two
\* responses holding a peer arrive first: every peer of the multiset.
C14_SameSetInEveryOrder ==
    AllArrived => loaders = SetToBag({Loader(3, OrderPeers)})

\* C14 as amended: the searcher delivers the union of the values of the
\* responses that arrived before it was removed; a response that arrived
\* after the removal adds nothing.
C14_DeliversValuesAppliedBeforeRemoval ==
    AllArrived =>
       loaders = SetToBag({Loader(3, UNION {msg.values :
                                      msg \in {m \in OrderResponses : Missed(m) = 0}})})

\* every response has arrived, three of the four holding a peer after the
\* removal of the searcher: the searcher delivered the peer of the fourth only
C14_Witness ==
    /\ AllArrived
    /\ Missed(OrderB) = 1
    /\ Missed(OrderC) = 0
    /\ Missed(OrderD) = 1
    /\ Missed(OrderE) = 1
    /\ loaders = SetToBag({Loader(3, {[host |-> 8, port |-> 51413]})})

-----------------------------------------------------------------------------
(* What the dispatch does with the sender of each message *)

\* the step leaves the sender in its bucket, as add_node does when the bucket
\* has room
Inserted(id, host, port) ==
    Node(id, host, port) \in routing_table'[BucketOf(Node(id, host, port))]

\* a query or a reply with all its keys
WellFormed(msg) ==
    /\ msg.t # NoKey /\ msg.id # NoKey
    /\ msg.y = "q" => msg.has_a /\ msg.q # AbsentQ /\ msg.info_hash # NoKey
    /\ msg.y = "r" => msg.has_r

\* C15: the handling of every message of type q, r or e ends with the sender
\* (id, address) in the routing table: a query handled without suspension, a
\* query resumed in enqueue_torrent, whether the store answers or fails, a
\* reply, and an error message.
C15_EveryMessageInserts ==
    [][/\ \A msg \in QueriesKrpc :
            (/\ WellFormed(msg) /\ handle_query(msg, 1, 6881)
             /\ handlers' = handlers) => Inserted(msg.id, 1, 6881)
       /\ \A h \in DOMAIN handlers :
            enqueue_torrent(h) \/ enqueue_torrent_fails(h) =>
            Inserted(h.id, h.host, h.port)
       /\ \A msg \in ResponsesKrpc :
            WellFormed(msg) /\ handle_response(msg, 1, 6881, 0, msg.nodes) =>
            Inserted(msg.id, 1, 6881)
       /\ \A msg \in OthersKrpc :
            (msg.y = "e" /\ msg.id # NoKey /\ handle_other(msg, 1, 6881)) =>
            Inserted(msg.id, 1, 6881)]_vars


-----------------------------------------------------------------------------
(* torrent_in_progress against the searchers and the load_torrent tasks *)

\* info_hash has a registered searcher or a load_torrent task
Live(info_hash) ==
    \/ \E t \in DOMAIN searchers : searchers[t].info_hash = info_hash
    \/ LoadersOf(loaders, info_hash) > 0

\* C16: in every state an info_hash is in torrent_in_progress if and only if a
\* searcher for it is registered or a load_torrent task for it is scheduled or
\* running.
C16_InProgressIffLive ==
    \A info_hash \in InfoHashes : info_hash \in torrent_in_progress <=> Live(info_hash)


-----------------------------------------------------------------------------
(* The searcher counter wrapping: more searchers than the counter has values *)

MaxProbes == 1

\* one info_hash more than the counter has values
WrapHashes == 0 .. SeqMax + 1

QueriesWrap == {Query("get_peers", 1, id, h) : id \in Senders, h \in WrapHashes}

\* responses to the first searcher, and to the searcher that takes its key
ResponsesWrap == {Response(1, id, {}, Peers) : id \in Senders}

\* info_hashes are numbered in the order in which they first arrive
NextHash == Cardinality(torrent_in_progress)

\* the loop of auto_find_nodes comes round
SweepWrap == \E target_id \in Targets : auto_find_nodes(target_id, DOMAIN candidates)

\* the clock can still reach the deadline of a searcher started now
Early == now + Deadline <= MaxTime

\* the clock reaches the deadline of the searchers started so far
TickWrap == Early /\ Advance(Deadline)

NextWrap ==
    \/ \E msg \in QueriesWrap, host \in Hosts, port \in Ports :
          /\ Early
          /\ BagCardinality(handlers) < MaxProbes
          /\ msg.info_hash = NextHash
          /\ handle_query(msg, host, port)
    \/ \E h \in DOMAIN handlers : Early /\ enqueue_torrent(h)
    \/ \E msg \in ResponsesWrap, host \in Hosts, port \in Ports :
          /\ msg.t \in DOMAIN searchers
          /\ handle_response(msg, host, port, 0, {})
    \/ SweepWrap
    \/ TickWrap

\* the loop runs for as long as the crawler does, and time passes
SpecWrap == Init /\ [][NextWrap]_vars /\ WF_vars(SweepWrap) /\ WF_vars(TickWrap)

\* a registered searcher looks for info_hash
Searching(info_hash) ==
    \E t \in DOMAIN searchers : searchers[t].info_hash = info_hash

\* C17: every searcher that search_peers starts is eventually destroyed and a
\* load_torrent task is eventually scheduled with its peers, whether or not a
\* response arrives and however many searchers are started after it, the
\* counter wrapping included.
C17_EverySearcherDelivered ==
    \A info_hash \in WrapHashes :
        Searching(info_hash) ~>
            (~Searching(info_hash) /\ LoadersOf(loaders, info_hash) > 0)


-----------------------------------------------------------------------------
(* Datagrams sent back for one query *)

\* the replies and errors in bag that go to host:port and echo t
SentBack(bag, host, port, t) ==
    BagCardinality([d \in {x \in DOMAIN bag : /\ x.host = host /\ x.port = port
                                              /\ x.t = t /\ x.y \in {"r", "e"}}
                      |-> bag[d]])

\* C18: at most one datagram goes back to the sender of a query: handle_query up
\* to its first suspension sends at most one reply or error, and once a reply
\* went out and the task is suspended in enqueue_torrent, the rest of the task
\* sends the sender neither a reply nor an error, whether the hook succeeds or
\* fails.
C18_AtMostOneDatagram ==
    /\ [][\A msg \in QueriesKrpc :
            handle_query(msg, 1, 6881) => SentBack(out', 1, 6881, msg.t) <= 1]_vars
    /\ [][\A h \in DOMAIN handlers :
            (enqueue_torrent(h) \/ enqueue_torrent_fails(h)) =>
                SentBack(out', h.host, h.port, h.t) = 0]_vars


-----------------------------------------------------------------------------
(* The finally clause of load_torrent *)

\* the load_torrent task l ends in this step
Exits(l) == BagIn(l, loaders) /\ loaders' = loaders (-) SetToBag({l})

\* C19: when a load_torrent task reaches its finally clause, its info_hash is in
\* torrent_in_progress (remove finds it), and after the removal no searcher and
\* no other load_torrent task of that info_hash is left without its entry.
C19_RemoveFindsOwnEntry ==
    [][\A l \in DOMAIN loaders :
          Exits(l) => /\ l.info_hash \in torrent_in_progress
                      /\ ~Live(l.info_hash)']_vars


-----------------------------------------------------------------------------
(* get_closest_nodes against the nearest nodes of the whole table *)

\* every node of the routing table
Stored == UNION {routing_table[i] : i \in DOMAIN routing_table}

\* picked is k_value nodes of nodes (all of them when there are fewer) and no
\* node left out is nearer to target_id than a node picked
Nearest(picked, nodes, target_id, k_value) ==
    /\ picked \subseteq nodes
    /\ Cardinality(picked) = IF Cardinality(nodes) < k_value
                             THEN Cardinality(nodes) ELSE k_value
    /\ \A n \in picked, m \in nodes \ picked :
          xor(n.id, target_id) <= xor(m.id, target_id)

\* the bucket at which the scans for target_id start
HomeIndex(target_id) == get_routing_table_index(xor(node_id, target_id))

\* the scan towards lower indices cannot stop short of a nearer node: the home
\* bucket alone fills the answer, or the scan takes every node it can meet
ScanSuffices(target_id, k_value) ==
    \/ Cardinality(routing_table[HomeIndex(target_id)]) >= k_value
    \/ Cardinality(UNION {routing_table[i] : i \in 0 .. HomeIndex(target_id)}) <= k_value

\* C20 as stated: for every routing table, target and k, get_closest_nodes
\* returns the k nodes nearest to the target by XOR distance among all the nodes
\* of the routing table (all of them when fewer than k are stored).
C20_ClosestIsNearestOfTable ==
    \A target_id \in TableTargets, k_value \in TableKs :
        Nearest(Range(get_closest_nodes(routing_table, target_id, k_value)),
                Stored, target_id, k_value)

\* C20 as amended: get_closest_nodes returns the k nodes nearest to the target
\* among all the nodes of the routing table when the home bucket of the target
\* holds at least k nodes, or the home bucket and the buckets below it hold at
\* most k nodes together.
C20_ClosestIsNearestWhenScanSuffices ==
    \A target_id \in TableTargets, k_value \in TableKs :
        ScanSuffices(target_id, k_value) =>
            Nearest(Range(get_closest_nodes(routing_table, target_id, k_value)),
                    Stored, target_id, k_value)

\* the loop has just probed the 8 nodes nearest to target 13, all of its home
\* bucket, and left out the nodes stored below and above it
C20_Witness ==
    /\ Cardinality(routing_table[HomeIndex(13)]) = QueryK
    /\ Node(4, 2, 6881) \in routing_table[0]
    /\ routing_table[HomeIndex(13) + 1] # {}
    /\ ScanSuffices(13, QueryK)
    /\ Range(get_closest_nodes(routing_table, 13, QueryK)) = routing_table[HomeIndex(13)]
    /\ BagIn(FindNodeMsg(1, 6881, 13), out)
    /\ out[FindNodeMsg(1, 6881, 13)] = QueryK
    /\ ~BagIn(FindNodeMsg(2, 6881, 13), out)

====
